---- MODULE Spec2Model ----
(***************************************************************************)
(* Model of the voice-recorder Tauri backend:                              *)
(*   - file_utils.rs : download_model (staged download, SHA-256 check,     *)
(*                     rename onto target_path) and calculate_file_checksum*)
(*   - whisper.rs    : the WHISPER_MODEL slot behind a mutex and the       *)
(*                     load / unload / status / transcribe commands        *)
(*   - main.rs       : the tray "quit" item, which exits the process       *)
(* Bytes are small naturals, file contents are sequences of bytes, strings *)
(* are sequences of one-character strings.                                 *)
(***************************************************************************)
EXTENDS Integers, Sequences, FiniteSets, TLC

\* ---------------------------------------------------------------- bounds
MaxChunkLen == 1
MaxChunks == 2
DigestHexLen == 2
MaxSegments == 2

\* ------------------------------------------------------------- utilities
Byte == {0, 1}

RECURSIVE SeqsUpTo(_, _)
SeqsUpTo(S, n) ==
    IF n = 0 THEN {<<>>}
    ELSE LET shorter == SeqsUpTo(S, n - 1)
         IN  shorter \cup {Append(s, x) : s \in {t \in shorter : Len(t) = n - 1}, x \in S}

Chunks == SeqsUpTo(Byte, MaxChunkLen) \ {<<>>}

Max(a, b) == IF a >= b THEN a ELSE b

RECURSIVE Pow(_, _)
Pow(b, e) == IF e = 0 THEN 1 ELSE b * Pow(b, e - 1)

\* ------------------------------------------------------ hex and checksums
LowerHex == <<"0","1","2","3","4","5","6","7","8","9","a","b","c","d","e","f">>
UpperHex == <<"0","1","2","3","4","5","6","7","8","9","A","B","C","D","E","F">>

\* str::to_lowercase on the characters a checksum can hold
to_lowercase(s) ==
    [i \in 1..Len(s) |->
        IF \E k \in 1..16 : UpperHex[k] = s[i]
        THEN LowerHex[CHOOSE k \in 1..16 : UpperHex[k] = s[i]]
        ELSE s[i]]

to_uppercase(s) ==
    [i \in 1..Len(s) |->
        IF \E k \in 1..16 : LowerHex[k] = s[i]
        THEN UpperHex[CHOOSE k \in 1..16 : LowerHex[k] = s[i]]
        ELSE s[i]]

\* hex::encode of a digest value: DigestHexLen lowercase hex digits, big-endian
RECURSIVE hex_encode(_, _)
hex_encode(v, n) ==
    IF n = 0 THEN <<>>
    ELSE Append(hex_encode(v \div 16, n - 1), LowerHex[(v % 16) + 1])

\* Sha256::update over the bytes of a file, Sha256::finalize: an incremental
\* accumulator over the whole content, truncated to DigestHexLen hex digits
RECURSIVE hasher_update(_, _)
hasher_update(h, bytes) ==
    IF bytes = <<>> THEN h
    ELSE hasher_update((h * 33 + Head(bytes) + 1) % Pow(16, DigestHexLen), Tail(bytes))

hasher_new == 171 % Pow(16, DigestHexLen)

Sha256Hex(bytes) == hex_encode(hasher_update(hasher_new, bytes), DigestHexLen)

\* ------------------------------------------------------------ file system
\* A path holds either no file or a file with its bytes.
Absent == [exists |-> FALSE, data |-> <<>>]
File(bytes) == [exists |-> TRUE, data |-> bytes]

\* download_model's target_path argument and the staging path derived from it
target_path == "model.bin"
\* a staging path without the ".tmp" suffix
temp_path_same(target) == target

temp_path_of(target) == IF target = "model.bin" THEN "model.bin.tmp" ELSE target
temp_path == temp_path_of(target_path)
Paths == {target_path, temp_path}

\* An artifact installed by an earlier run of the program
PriorArtifact == <<0>>

\* The digests callers ask for, in lower and in upper case
ExpectedBodies == {<<1>>, <<1, 0>>}
Checksums == {Sha256Hex(b) : b \in ExpectedBodies}
                 \cup {to_uppercase(Sha256Hex(b)) : b \in ExpectedBodies}
ExpectedSizes == {0, MaxChunks}
HttpErrorStatuses == {404, 500}

VARIABLES
    fs,               \* path -> Absent or File(bytes)
    dpc,              \* download call d: position in download_model
    dargs,            \* download call d: [checksum, expected_size]
    file,             \* download call d: where the inode of its open handle lives
    downloaded,       \* download call d: the `downloaded` counter
    actual_checksum,  \* download call d: digest computed from the staging file
    dresult,          \* download call d: the returned Result
    emitted,          \* download call d: DownloadProgress snapshots emitted so far
    pre,              \* download call d: target_path and the staging path when the call began
    nchunks,          \* download call d: chunks the response stream has yielded
    received          \* download call d: bytes the response stream has yielded

dvars == <<fs, dpc, dargs, file, downloaded, actual_checksum, dresult, emitted, pre, nchunks,
          received>>

VARIABLES
    WHISPER_MODEL,    \* the Option<WhisperContext> inside the mutex
    lock,             \* the caller holding the mutex, or 0
    live,             \* ids of the WhisperContext values constructed and not dropped
    epc,              \* engine call p: position
    ecall,            \* engine call p: the command and its arguments
    ectx,             \* engine call p: the context load_whisper_model constructed
    eresult,          \* engine call p: the returned Result
    stages,           \* engine call p: TranscriptionProgress snapshots emitted
    last_write,       \* the last operation that stored into WHISPER_MODEL
    before            \* engine call p: WHISPER_MODEL when the call began

evars == <<WHISPER_MODEL, lock, live, epc, ecall, ectx, eresult, stages, last_write, before>>

VARIABLES
    sink,             \* "up" while the event sink accepts an emit, "down" while emit returns Err
    lost              \* the calls in flight one of whose snapshots the sink refused

svars == <<sink, lost>>

VARIABLES
    extraction        \* one run of the loop of whisper.rs 96-116: the segments the
                      \* WhisperState holds, the index i, `result`, the returned text

vars == <<fs, dpc, dargs, file, downloaded, actual_checksum, dresult, emitted, pre, nchunks,
          received,
          WHISPER_MODEL, lock, live, epc, ecall, ectx, eresult, stages, last_write, before,
          sink, lost, extraction>>

Downloads == {1, 2}

NoPre == [target |-> Absent, staged |-> FALSE]
NoArgs == [checksum |-> <<>>, expected_size |-> 0]
NoResult == [kind |-> "Pending", expected |-> <<>>, actual |-> <<>>, status |-> 0]
Ok == [kind |-> "Ok", expected |-> <<>>, actual |-> <<>>, status |-> 0]
Err(kind) == [kind |-> kind, expected |-> <<>>, actual |-> <<>>, status |-> 0]
ErrStatus(code) == [kind |-> "RemoteUnavailable", expected |-> <<>>, actual |-> <<>>, status |-> code]
ErrMismatch(expected, actual) ==
    [kind |-> "ChecksumMismatch", expected |-> expected, actual |-> actual, status |-> 0]

\* f64 percentages are kept as exact fractions <<numerator, denominator>>
Percent(n) == <<n, 1>>
DownloadProgress(bytes, total, pct, status) ==
    [bytes_downloaded |-> bytes, total_bytes |-> total, percentage |-> pct, status |-> status]

\* fs::remove_file; the callers ignore its error when the path holds no file
remove_file(f, path) == [f EXCEPT ![path] = Absent]
unlinked(h, path) == [d \in DOMAIN h |-> IF h[d] = path THEN "unlinked" ELSE h[d]]

\* fs::rename(from, to) that succeeds: `to` now names the inode `from` named
rename(f, from, to) == [f EXCEPT ![to] = f[from], ![from] = Absent]
renamed(h, from, to) ==
    [d \in DOMAIN h |-> IF h[d] = to THEN "unlinked" ELSE IF h[d] = from THEN to ELSE h[d]]

\* File::write_all through a handle at offset `off` (a gap reads as zero bytes)
write_at(bytes, off, chunk) ==
    LET newlen == Max(Len(bytes), off + Len(chunk))
    IN  [i \in 1..newlen |->
            IF i > off /\ i <= off + Len(chunk) THEN chunk[i - off]
            ELSE IF i <= Len(bytes) THEN bytes[i] ELSE 0]

write_through(f, where, off, chunk) ==
    IF where \in Paths /\ f[where].exists
    THEN [f EXCEPT ![where] = File(write_at(f[where].data, off, chunk))]
    ELSE f

\* calculate_file_checksum on a file that opens and reads
calculate_file_checksum(f, path) == Sha256Hex(f[path].data)

\* a comparison that accepts every digest
checksum_unchecked(actual, checksum) == TRUE

\* the comparison of line 202
checksum_matches(actual, checksum) == to_lowercase(actual) = to_lowercase(checksum)

DlInit ==
    /\ fs \in {[p \in Paths |-> IF p = target_path THEN t ELSE Absent] :
                  t \in {Absent, File(PriorArtifact)}}
    /\ dpc = [d \in Downloads |-> "idle"]
    /\ dargs = [d \in Downloads |-> NoArgs]
    /\ file = [d \in Downloads |-> "closed"]
    /\ downloaded = [d \in Downloads |-> 0]
    /\ actual_checksum = [d \in Downloads |-> <<>>]
    /\ dresult = [d \in Downloads |-> NoResult]
    /\ emitted = [d \in Downloads |-> <<>>]
    /\ pre = [d \in Downloads |-> NoPre]
    /\ nchunks = [d \in Downloads |-> 0]
    /\ received = [d \in Downloads |-> 0]

\* -------------------------------------------------- download_model, by step
\* an emit that is tried a second time when the sink refuses the snapshot
emit_retrying(d, snapshot) ==
    /\ emitted' = [emitted EXCEPT ![d] =
                      IF sink = "down" THEN Append(Append(@, snapshot), snapshot)
                      ELSE Append(@, snapshot)]
    /\ lost' = IF sink = "down" THEN lost \cup {<<"download", d>>} ELSE lost

\* `let _ = app_handle.emit(..)`: the Err of a refused delivery is discarded
emit(d, snapshot) ==
    /\ emitted' = [emitted EXCEPT ![d] = Append(@, snapshot)]
    /\ lost' = IF sink = "down" THEN lost \cup {<<"download", d>>} ELSE lost

\* the call returns `r`; its handle, if still open, is dropped with the frame
returns(d, r) ==
    /\ dresult' = [dresult EXCEPT ![d] = r]
    /\ dpc' = [dpc EXCEPT ![d] = "done"]

starting_snapshot(d, size) == DownloadProgress(0, size, Percent(0), "starting")
first_downloading_snapshot(d) ==
    DownloadProgress(0, dargs[d].expected_size, Percent(0), "downloading")
chunk_snapshot(d, bytes) ==
    DownloadProgress(bytes, dargs[d].expected_size,
                     IF dargs[d].expected_size > 0
                     THEN <<bytes * 100, dargs[d].expected_size>> ELSE Percent(0),
                     "downloading")
validating_snapshot(d) ==
    DownloadProgress(downloaded[d], dargs[d].expected_size, Percent(100), "validating")
\* a `completed` snapshot whose percentage is recomputed from the counters
completed_recomputed(d) ==
    DownloadProgress(downloaded[d], dargs[d].expected_size,
                     IF dargs[d].expected_size > 0
                     THEN <<downloaded[d] * 100, dargs[d].expected_size>> ELSE Percent(0),
                     "completed")

completed_snapshot(d) ==
    DownloadProgress(downloaded[d], dargs[d].expected_size, Percent(100), "completed")

\* lines 99-103: create_dir_all on the parent fails
CreateDirFails(d) ==
    /\ dpc[d] = "idle"
    /\ \E cs \in Checksums, size \in ExpectedSizes :
          dargs' = [dargs EXCEPT ![d] = [checksum |-> cs, expected_size |-> size]]
    /\ pre' = [pre EXCEPT ![d] = [target |-> fs[target_path], staged |-> fs[temp_path].exists]]
    /\ returns(d, Err("DirectoryCreationFailed"))
    /\ UNCHANGED <<fs, file, downloaded, actual_checksum, emitted, nchunks, received>>
    /\ UNCHANGED evars
    /\ UNCHANGED <<sink, lost, extraction>>

\* lines 99-111: the parent directory exists; `starting` is emitted
Begin(d) ==
    /\ dpc[d] = "idle"
    /\ \E cs \in Checksums, size \in ExpectedSizes :
          /\ dargs' = [dargs EXCEPT ![d] = [checksum |-> cs, expected_size |-> size]]
          /\ emit(d, starting_snapshot(d, size))
    /\ pre' = [pre EXCEPT ![d] = [target |-> fs[target_path], staged |-> fs[temp_path].exists]]
    /\ dpc' = [dpc EXCEPT ![d] = "client"]
    /\ UNCHANGED <<fs, file, downloaded, actual_checksum, dresult, nchunks, received>>
    /\ UNCHANGED evars
    /\ UNCHANGED <<sink, extraction>>

\* lines 114-117: the HTTP client cannot be built
ClientBuildFails(d) ==
    /\ dpc[d] = "client"
    /\ returns(d, Err("ClientBuildFailed"))
    /\ UNCHANGED <<fs, dargs, file, downloaded, actual_checksum, emitted, pre, nchunks, received>>
    /\ UNCHANGED evars
    /\ UNCHANGED <<sink, lost, extraction>>

\* what the closure of lines 123-127 removes when the request fails
transport_cleanup(f) == remove_file(f, target_path)
transport_cleanup_handles(h) == unlinked(h, target_path)

\* lines 119-127: send() fails (DNS, connect, TLS, timeout)
SendFails(d) ==
    /\ dpc[d] = "client"
    /\ fs' = transport_cleanup(fs)
    /\ file' = transport_cleanup_handles(file)
    /\ returns(d, Err("TransportError"))
    /\ UNCHANGED <<dargs, downloaded, actual_checksum, emitted, pre, nchunks, received>>
    /\ UNCHANGED evars
    /\ UNCHANGED <<sink, lost, extraction>>

\* a status check placed after File::create: the staging file is already there
status_checked_after_create(d) ==
    /\ dpc[d] = "client"
    /\ fs' = [fs EXCEPT ![temp_path] = File(<<>>)]
    /\ \E code \in HttpErrorStatuses : returns(d, ErrStatus(code))
    /\ UNCHANGED <<dargs, file, downloaded, actual_checksum, emitted, pre, nchunks, received>>
    /\ UNCHANGED evars
    /\ UNCHANGED <<sink, lost, extraction>>

\* lines 129-134: the response carries a non-success status
HttpStatusRejected(d) ==
    /\ dpc[d] = "client"
    /\ \E code \in HttpErrorStatuses : returns(d, ErrStatus(code))
    /\ UNCHANGED <<fs, dargs, file, downloaded, actual_checksum, emitted, pre, nchunks, received>>
    /\ UNCHANGED evars
    /\ UNCHANGED <<sink, lost, extraction>>

\* lines 119-134: a response with a success status arrives
ResponseOk(d) ==
    /\ dpc[d] = "client"
    /\ dpc' = [dpc EXCEPT ![d] = "create"]
    /\ UNCHANGED <<fs, dargs, file, downloaded, actual_checksum, dresult, emitted, pre, nchunks, received>>
    /\ UNCHANGED evars
    /\ UNCHANGED <<sink, lost, extraction>>

\* lines 137-139: File::create on the staging path fails
CreateStagingFails(d) ==
    /\ dpc[d] = "create"
    /\ returns(d, Err("FileCreateFailed"))
    /\ UNCHANGED <<fs, dargs, file, downloaded, actual_checksum, emitted, pre, nchunks, received>>
    /\ UNCHANGED evars
    /\ UNCHANGED <<sink, lost, extraction>>

\* lines 137-152: File::create makes or truncates the staging file; the first
\* `downloading` snapshot is emitted
CreateStaging(d) ==
    /\ dpc[d] = "create"
    /\ fs' = [fs EXCEPT ![temp_path] = File(<<>>)]
    /\ file' = [file EXCEPT ![d] = temp_path]
    /\ downloaded' = [downloaded EXCEPT ![d] = 0]
    /\ emit(d, first_downloading_snapshot(d))
    /\ dpc' = [dpc EXCEPT ![d] = "stream"]
    /\ UNCHANGED <<dargs, actual_checksum, dresult, pre, nchunks, received>>
    /\ UNCHANGED evars
    /\ UNCHANGED <<sink, extraction>>

\* lines 154-159: the stream yields an error
ChunkReadFails(d) ==
    /\ dpc[d] = "stream"
    /\ fs' = remove_file(fs, temp_path)
    /\ file' = [unlinked(file, temp_path) EXCEPT ![d] = "closed"]
    /\ returns(d, Err("TransferInterrupted"))
    /\ UNCHANGED <<dargs, downloaded, actual_checksum, emitted, pre, nchunks, received>>
    /\ UNCHANGED evars
    /\ UNCHANGED <<sink, lost, extraction>>

\* lines 154-165: a chunk arrives and write_all fails after writing part of it
ChunkWriteFails(d) ==
    /\ dpc[d] = "stream"
    /\ nchunks[d] < MaxChunks
    /\ \E chunk \in Chunks, k \in 0..MaxChunkLen :
          /\ k < Len(chunk)
          /\ fs' = remove_file(write_through(fs, file[d], downloaded[d], SubSeq(chunk, 1, k)),
                               temp_path)
    /\ file' = [unlinked(file, temp_path) EXCEPT ![d] = "closed"]
    /\ returns(d, Err("DiskWriteFailed"))
    /\ UNCHANGED <<dargs, downloaded, actual_checksum, emitted, pre, nchunks, received>>
    /\ UNCHANGED evars
    /\ UNCHANGED <<sink, lost, extraction>>

\* a counter assigned the length of the last chunk
count_last(count, chunk) == Len(chunk)

\* line 167: downloaded += chunk.len()
count_after(count, chunk) == count + Len(chunk)

\* lines 154-182: a chunk arrives, is written, counted and reported
ChunkWritten(d) ==
    /\ dpc[d] = "stream"
    /\ nchunks[d] < MaxChunks
    /\ \E chunk \in Chunks :
          /\ fs' = write_through(fs, file[d], downloaded[d], chunk)
          /\ downloaded' = [downloaded EXCEPT ![d] = count_after(@, chunk)]
          /\ emit(d, chunk_snapshot(d, count_after(downloaded[d], chunk)))
          /\ received' = [received EXCEPT ![d] = @ + Len(chunk)]
    /\ nchunks' = [nchunks EXCEPT ![d] = @ + 1]
    /\ UNCHANGED <<dpc, dargs, file, actual_checksum, dresult, pre>>
    /\ UNCHANGED evars
    /\ UNCHANGED <<sink, extraction>>

\* a handle that stays open into the verification
handle_kept(h, d) == h

\* line 185: drop(file)
drop_file(h, d) == [h EXCEPT ![d] = "closed"]

\* lines 154, 184-193: the stream ends; the handle is dropped; `validating`
StreamEnds(d) ==
    /\ dpc[d] = "stream"
    /\ file' = drop_file(file, d)
    /\ emit(d, validating_snapshot(d))
    /\ dpc' = [dpc EXCEPT ![d] = "checksum"]
    /\ UNCHANGED <<fs, dargs, downloaded, actual_checksum, dresult, pre, nchunks, received>>
    /\ UNCHANGED evars
    /\ UNCHANGED <<sink, extraction>>

\* lines 196-200: calculate_file_checksum cannot open or read the staging file
ChecksumFails(d) ==
    /\ dpc[d] = "checksum"
    /\ fs' = remove_file(fs, temp_path)
    /\ file' = unlinked(file, temp_path)
    /\ returns(d, Err("ChecksumFailed"))
    /\ UNCHANGED <<dargs, downloaded, actual_checksum, emitted, pre, nchunks, received>>
    /\ UNCHANGED evars
    /\ UNCHANGED <<sink, lost, extraction>>

\* a mismatch branch that leaves the staging file behind
mismatch_no_cleanup(f) == f

\* what the branch of lines 202-209 does to the file system
mismatch_cleanup(f) == remove_file(f, temp_path)

\* lines 196-209: the digest differs from the expected one
ChecksumMismatch(d) ==
    /\ dpc[d] = "checksum"
    /\ fs[temp_path].exists
    /\ LET actual == calculate_file_checksum(fs, temp_path)
       IN  /\ ~checksum_matches(actual, dargs[d].checksum)
           /\ actual_checksum' = [actual_checksum EXCEPT ![d] = actual]
           /\ returns(d, ErrMismatch(dargs[d].checksum, actual))
    /\ fs' = mismatch_cleanup(fs)
    /\ file' = unlinked(file, temp_path)
    /\ UNCHANGED <<dargs, downloaded, emitted, pre, nchunks, received>>
    /\ UNCHANGED evars
    /\ UNCHANGED <<sink, lost, extraction>>

\* lines 196-209: the digest equals the expected one
ChecksumVerified(d) ==
    /\ dpc[d] = "checksum"
    /\ fs[temp_path].exists
    /\ LET actual == calculate_file_checksum(fs, temp_path)
       IN  /\ checksum_matches(actual, dargs[d].checksum)
           /\ actual_checksum' = [actual_checksum EXCEPT ![d] = actual]
    /\ dpc' = [dpc EXCEPT ![d] = "rename"]
    /\ UNCHANGED <<fs, dargs, file, downloaded, dresult, emitted, pre, nchunks, received>>
    /\ UNCHANGED evars
    /\ UNCHANGED <<sink, lost, extraction>>

\* a failed rename that reports a `failed` snapshot before it returns
rename_fails_reported(d) ==
    /\ dpc[d] = "rename"
    /\ fs' = remove_file(fs, temp_path)
    /\ file' = unlinked(file, temp_path)
    /\ emit(d, DownloadProgress(downloaded[d], dargs[d].expected_size, Percent(0), "failed"))
    /\ returns(d, Err("InstallFailed"))
    /\ UNCHANGED <<dargs, downloaded, actual_checksum, pre, nchunks, received>>
    /\ UNCHANGED evars
    /\ UNCHANGED <<sink, extraction>>

\* lines 212-216: fs::rename fails
RenameFails(d) ==
    /\ dpc[d] = "rename"
    /\ fs' = remove_file(fs, temp_path)
    /\ file' = unlinked(file, temp_path)
    /\ returns(d, Err("InstallFailed"))
    /\ UNCHANGED <<dargs, downloaded, actual_checksum, emitted, pre, nchunks, received>>
    /\ UNCHANGED evars
    /\ UNCHANGED <<sink, lost, extraction>>

\* lines 212-226: the staging file is renamed onto target_path; `completed`
Installed(d) ==
    /\ dpc[d] = "rename"
    /\ fs[temp_path].exists
    /\ fs' = rename(fs, temp_path, target_path)
    /\ file' = renamed(file, temp_path, target_path)
    /\ emit(d, completed_snapshot(d))
    /\ dresult' = [dresult EXCEPT ![d] = Ok]
    /\ dpc' = [dpc EXCEPT ![d] = "done"]
    /\ UNCHANGED <<dargs, downloaded, actual_checksum, pre, nchunks, received>>
    /\ UNCHANGED evars
    /\ UNCHANGED <<sink, extraction>>

\* the caller has the Result; the slot is free for the next call
Idle(d) ==
    /\ dpc' = [dpc EXCEPT ![d] = "idle"]
    /\ dargs' = [dargs EXCEPT ![d] = NoArgs]
    /\ file' = [file EXCEPT ![d] = "closed"]
    /\ downloaded' = [downloaded EXCEPT ![d] = 0]
    /\ actual_checksum' = [actual_checksum EXCEPT ![d] = <<>>]
    /\ dresult' = [dresult EXCEPT ![d] = NoResult]
    /\ emitted' = [emitted EXCEPT ![d] = <<>>]
    /\ pre' = [pre EXCEPT ![d] = NoPre]
    /\ nchunks' = [nchunks EXCEPT ![d] = 0]
    /\ received' = [received EXCEPT ![d] = 0]
    /\ lost' = lost \ {<<"download", d>>}

Returned(d) ==
    /\ dpc[d] = "done"
    /\ Idle(d)
    /\ UNCHANGED fs
    /\ UNCHANGED evars
    /\ UNCHANGED <<sink, extraction>>

\* main.rs "quit": std::process::exit(0) ends every call in flight; files stay
Quit ==
    /\ \E d \in Downloads : dpc[d] \notin {"idle", "done"}
    /\ dpc' = [d \in Downloads |-> "idle"]
    /\ dargs' = [d \in Downloads |-> NoArgs]
    /\ file' = [d \in Downloads |-> "closed"]
    /\ downloaded' = [d \in Downloads |-> 0]
    /\ actual_checksum' = [d \in Downloads |-> <<>>]
    /\ dresult' = [d \in Downloads |-> NoResult]
    /\ emitted' = [d \in Downloads |-> <<>>]
    /\ pre' = [d \in Downloads |-> NoPre]
    /\ nchunks' = [d \in Downloads |-> 0]
    /\ received' = [d \in Downloads |-> 0]
    /\ lost' = lost \ {<<"download", d>> : d \in Downloads}
    /\ UNCHANGED fs
    /\ UNCHANGED evars
    /\ UNCHANGED <<sink, extraction>>

DownloadStep(d) ==
    \/ CreateDirFails(d)
    \/ Begin(d)
    \/ ClientBuildFails(d)
    \/ SendFails(d)
    \/ HttpStatusRejected(d)
    \/ ResponseOk(d)
    \/ CreateStagingFails(d)
    \/ CreateStaging(d)
    \/ ChunkReadFails(d)
    \/ ChunkWriteFails(d)
    \/ ChunkWritten(d)
    \/ StreamEnds(d)
    \/ ChecksumFails(d)
    \/ ChecksumMismatch(d)
    \/ ChecksumVerified(d)
    \/ RenameFails(d)
    \/ Installed(d)
    \/ Returned(d)


\* --------------------------------------------------------- engine session
ModelVariant == {"tiny", "base"}
MissingPath == "missing.bin"
LoadPaths == {target_path, MissingPath}
EProcs == {1, 2}
InstanceIds == 1..(Cardinality(EProcs) + 1)

\* Option<WhisperContext>: None, or Some(context) with the variant it carries
None == [some |-> FALSE, id |-> 0, variant |-> "none"]
Some(id, variant) == [some |-> TRUE, id |-> id, variant |-> variant]

Blank == " "
SegmentTexts == {<<>>, <<"a">>, <<Blank>>, <<Blank, "a">>, <<"a", Blank>>}
SegmentLists == SeqsUpTo(SegmentTexts, MaxSegments)

NoCall == [op |-> "none", path |-> "", variant |-> "none"]
Call(op, path, variant) == [op |-> op, path |-> path, variant |-> variant]
EPending == [kind |-> "Pending", variant |-> "none", text |-> <<>>]
EOk == [kind |-> "Ok", variant |-> "none", text |-> <<>>]
EErr(kind) == [kind |-> kind, variant |-> "none", text |-> <<>>]
EStatus(m) == [kind |-> "Ok", variant |-> m.variant, text |-> <<>>]
EText(t) == [kind |-> "Ok", variant |-> "none", text |-> t]

TranscriptionProgress(stage, hundredths) == [stage |-> stage, progress |-> hundredths]

EInit ==
    /\ WHISPER_MODEL = None
    /\ lock = 0
    /\ live = {}
    /\ epc = [p \in EProcs |-> "idle"]
    /\ ecall = [p \in EProcs |-> NoCall]
    /\ ectx = [p \in EProcs |-> None]
    /\ eresult = [p \in EProcs |-> EPending]
    /\ stages = [p \in EProcs |-> <<>>]
    /\ last_write = [op |-> "start", variant |-> "none"]
    /\ before = [p \in EProcs |-> None]

\* a command that goes on without waiting for the mutex
lock_skipped == TRUE

\* WHISPER_MODEL.lock() returns once no other caller holds the mutex
lock_available == lock = 0

\* a guard dropped before inference starts
released_early(p) == 0

\* the MutexGuard `model` of transcribe_audio lives until the function returns
guard_held(p) == p

\* an existence check that always passes
path_assumed(path) == TRUE

\* Path::exists
path_exists(path) == path \in Paths /\ fs[path].exists

called(p, c) ==
    /\ ecall' = [ecall EXCEPT ![p] = c]
    /\ before' = [before EXCEPT ![p] = WHISPER_MODEL]

ereturns(p, r) ==
    /\ eresult' = [eresult EXCEPT ![p] = r]
    /\ epc' = [epc EXCEPT ![p] = "done"]

\* an old context that is never released
dropped_leaked(ids, m) == ids

\* dropping the value a slot held
dropped(ids, m) == IF m.some THEN ids \ {m.id} ELSE ids

\* lines 134-138: the path names no file
LoadFileNotFound(p) ==
    /\ epc[p] = "idle"
    /\ \E path \in LoadPaths, variant \in ModelVariant :
          /\ ~path_exists(path)
          /\ called(p, Call("load", path, variant))
    /\ ereturns(p, EErr("FileNotFound"))
    /\ UNCHANGED <<WHISPER_MODEL, lock, live, ectx, stages, last_write>>
    /\ UNCHANGED dvars
    /\ UNCHANGED <<sink, lost, extraction>>

\* lines 134-140, 42-47: the file exists and WhisperContext::new fails
LoadConstructFails(p) ==
    /\ epc[p] = "idle"
    /\ \E path \in LoadPaths, variant \in ModelVariant :
          /\ path_exists(path)
          /\ called(p, Call("load", path, variant))
    /\ ereturns(p, EErr("LoadFailed"))
    /\ UNCHANGED <<WHISPER_MODEL, lock, live, ectx, stages, last_write>>
    /\ UNCHANGED dvars
    /\ UNCHANGED <<sink, lost, extraction>>

\* lines 134-140, 42-49: the file exists and a new context is constructed
LoadConstructed(p) ==
    /\ epc[p] = "idle"
    /\ \E path \in LoadPaths, variant \in ModelVariant :
          LET id == CHOOSE i \in InstanceIds \ live :
                        \A j \in InstanceIds \ live : i <= j
          IN  /\ path_exists(path)
              /\ called(p, Call("load", path, variant))
              /\ ectx' = [ectx EXCEPT ![p] = Some(id, variant)]
              /\ live' = live \cup {id}
    /\ epc' = [epc EXCEPT ![p] = "store"]
    /\ UNCHANGED <<WHISPER_MODEL, lock, eresult, stages, last_write>>
    /\ UNCHANGED dvars
    /\ UNCHANGED <<sink, lost, extraction>>

\* what line 143 leaves in the slot
stored(old, context) == context

\* lines 142-145: lock, store the new context (the old value is dropped), unlock
LoadStore(p) ==
    /\ epc[p] = "store"
    /\ lock_available
    /\ WHISPER_MODEL' = stored(WHISPER_MODEL, ectx[p])
    /\ live' = dropped(live, WHISPER_MODEL)
    /\ last_write' = [op |-> "load", variant |-> ectx[p].variant]
    /\ ectx' = [ectx EXCEPT ![p] = None]
    /\ ereturns(p, EOk)
    /\ UNCHANGED <<lock, ecall, stages, before>>
    /\ UNCHANGED dvars
    /\ UNCHANGED <<sink, lost, extraction>>

\* an unload that reports an error when nothing is loaded
unload_result_strict(old) == IF old.some THEN EOk ELSE EErr("NotLoaded")

\* line 152: unload_whisper_model returns Ok(()) whatever the slot held
unload_result(old) == EOk

\* an unload that leaves the slot as it was
cleared_kept(old) == old

\* what line 151 leaves in the slot
cleared(old) == None

\* lines 149-153: unload_whisper_model
Unload(p) ==
    /\ epc[p] = "idle"
    /\ lock_available
    /\ called(p, Call("unload", "", "none"))
    /\ WHISPER_MODEL' = cleared(WHISPER_MODEL)
    /\ live' = dropped(live, WHISPER_MODEL)
    /\ last_write' = [op |-> "unload", variant |-> "none"]
    /\ ereturns(p, unload_result(WHISPER_MODEL))
    /\ UNCHANGED <<lock, ectx, stages>>
    /\ UNCHANGED dvars
    /\ UNCHANGED <<sink, lost, extraction>>

\* line 172: model.as_ref().map(|ctx| ctx.variant().clone())
status_of(m) == EStatus(m)

\* lines 170-173: get_whisper_model_status
Status(p) ==
    /\ epc[p] = "idle"
    /\ lock_available
    /\ called(p, Call("status", "", "none"))
    /\ ereturns(p, status_of(WHISPER_MODEL))
    /\ UNCHANGED <<WHISPER_MODEL, lock, live, ectx, stages, last_write>>
    /\ UNCHANGED dvars
    /\ UNCHANGED <<sink, lost, extraction>>

\* lines 100-106: each segment is pushed, followed by one blank
RECURSIVE push_segments(_, _)
push_segments(result, segments) ==
    IF segments = <<>> THEN result
    ELSE push_segments(result \o Head(segments) \o <<Blank>>, Tail(segments))

\* str::trim
RECURSIVE trim_start(_)
trim_start(t) == IF t # <<>> /\ Head(t) = Blank THEN trim_start(Tail(t)) ELSE t
RECURSIVE trim_end(_)
trim_end(t) ==
    IF t # <<>> /\ t[Len(t)] = Blank THEN trim_end(SubSeq(t, 1, Len(t) - 1)) ELSE t
\* a trim that strips the end only
trim_end_only(t) == trim_end(t)

trim(t) == trim_end(trim_start(t))

\* `let _ = app_handle.emit(..)` for each snapshot in turn
emit_stages(p, snapshots) ==
    /\ stages' = [stages EXCEPT ![p] = @ \o snapshots]
    /\ lost' = IF sink = "down" /\ snapshots # <<>>
               THEN lost \cup {<<"transcribe", p>>} ELSE lost

\* `finalizing` emitted together with the first two stages
stages_with_finalizing ==
    <<TranscriptionProgress("loading_model", 0),
      TranscriptionProgress("processing_audio", 33),
      TranscriptionProgress("finalizing", 66)>>

\* lines 53-78: the stages emitted before create_state and state.full
stages_before_inference ==
    <<TranscriptionProgress("loading_model", 0),
      TranscriptionProgress("processing_audio", 33)>>

\* Option::take in place of as_ref: the slot is emptied
take(m) == None

\* line 163: model.as_ref() borrows the context and leaves the slot as it is
as_ref(m) == m

\* a None arm reached after `loading_model` was emitted
not_loaded_after_emit == <<TranscriptionProgress("loading_model", 0)>>

\* what transcribe_audio emits on its None arm (lines 163-166)
not_loaded_stages == <<>>

\* lines 161-166: the slot is empty
TranscribeNotLoaded(p) ==
    /\ epc[p] = "idle"
    /\ lock_available
    /\ ~WHISPER_MODEL.some
    /\ \E variant \in ModelVariant : called(p, Call("transcribe", "", variant))
    /\ emit_stages(p, not_loaded_stages)
    /\ ereturns(p, EErr("NotLoaded"))
    /\ UNCHANGED <<WHISPER_MODEL, lock, live, ectx, last_write>>
    /\ UNCHANGED dvars
    /\ UNCHANGED <<sink, extraction>>

\* lines 161-164, 52-78: the lock is taken, the slot holds a context;
\* `loading_model`, parameter setup, `processing_audio`
TranscribeBegin(p) ==
    /\ epc[p] = "idle"
    /\ lock_available
    /\ WHISPER_MODEL.some
    /\ lock' = guard_held(p)
    /\ \E variant \in ModelVariant : called(p, Call("transcribe", "", variant))
    /\ WHISPER_MODEL' = as_ref(WHISPER_MODEL)
    /\ emit_stages(p, stages_before_inference)
    /\ epc' = [epc EXCEPT ![p] = "infer"]
    /\ UNCHANGED <<live, ectx, eresult, last_write>>
    /\ UNCHANGED dvars
    /\ UNCHANGED <<sink, extraction>>

\* a guard that outlives the call
guard_leaked(p) == p

\* line 167: the MutexGuard goes out of scope as transcribe_audio returns
guard_dropped(p) == 0

\* an Err leaves transcribe; the guard is dropped as transcribe_audio returns
transcribe_fails(p, kind) ==
    /\ lock = p
    /\ lock' = guard_dropped(p)
    /\ ereturns(p, EErr(kind))
    /\ UNCHANGED <<WHISPER_MODEL, live, ecall, ectx, stages, last_write, before>>
    /\ UNCHANGED dvars
    /\ UNCHANGED <<sink, lost, extraction>>

\* lines 81-82: create_state fails
CreateStateFails(p) == epc[p] = "infer" /\ transcribe_fails(p, "CreateStateFailed")

\* lines 85-86: state.full fails
InferenceFails(p) == epc[p] = "infer" /\ transcribe_fails(p, "TranscriptionFailed")

\* lines 81-94: inference completes; `finalizing`
InferenceDone(p) ==
    /\ epc[p] = "infer"
    /\ lock = p
    /\ emit_stages(p, <<TranscriptionProgress("finalizing", 66)>>)
    /\ epc' = [epc EXCEPT ![p] = "extract"]
    /\ UNCHANGED <<WHISPER_MODEL, lock, live, ecall, ectx, eresult, last_write, before>>
    /\ UNCHANGED dvars
    /\ UNCHANGED <<sink, extraction>>

\* lines 97-98: full_n_segments fails
SegmentCountFails(p) == epc[p] = "extract" /\ transcribe_fails(p, "SegmentCountFailed")

\* lines 101-103: full_get_segment_text fails for some segment
SegmentTextFails(p) == epc[p] = "extract" /\ transcribe_fails(p, "SegmentTextFailed")

\* lines 97-116: the segments are joined; `complete`; the trimmed text returns
TranscribeComplete(p) ==
    /\ epc[p] = "extract"
    /\ lock = p
    /\ lock' = guard_dropped(p)
    /\ \E segments \in SegmentLists :
          ereturns(p, EText(trim(push_segments(<<>>, segments))))
    /\ emit_stages(p, <<TranscriptionProgress("complete", 100)>>)
    /\ UNCHANGED <<WHISPER_MODEL, live, ecall, ectx, last_write, before>>
    /\ UNCHANGED dvars
    /\ UNCHANGED <<sink, extraction>>

\* the caller has the Result
EReturned(p) ==
    /\ epc[p] = "done"
    /\ epc' = [epc EXCEPT ![p] = "idle"]
    /\ eresult' = [eresult EXCEPT ![p] = EPending]
    /\ stages' = [stages EXCEPT ![p] = <<>>]
    /\ before' = [before EXCEPT ![p] = None]
    /\ ecall' = [ecall EXCEPT ![p] = NoCall]
    /\ lost' = lost \ {<<"transcribe", p>>}
    /\ UNCHANGED <<WHISPER_MODEL, lock, live, ectx, last_write>>
    /\ UNCHANGED dvars
    /\ UNCHANGED <<sink, extraction>>

EngineStep(p) ==
    \/ LoadFileNotFound(p)
    \/ LoadConstructFails(p)
    \/ LoadConstructed(p)
    \/ LoadStore(p)
    \/ Unload(p)
    \/ Status(p)
    \/ TranscribeNotLoaded(p)
    \/ TranscribeBegin(p)
    \/ CreateStateFails(p)
    \/ InferenceFails(p)
    \/ InferenceDone(p)
    \/ SegmentCountFails(p)
    \/ SegmentTextFails(p)
    \/ TranscribeComplete(p)
    \/ EReturned(p)

\* ------------------------------------- WhisperContext::transcribe, 96-116
\* lines 101-105: one pass of the loop pushes segment i and a space
PushSegment ==
    /\ ~extraction.returned
    /\ extraction.i < Len(extraction.segments)
    /\ extraction' = [extraction EXCEPT
                         !.i = @ + 1,
                         !.result = push_segments(@, <<extraction.segments[extraction.i + 1]>>)]
    /\ UNCHANGED <<dvars, evars, svars>>

\* line 116: the loop is over; Ok(result.trim().to_string())
ReturnText ==
    /\ ~extraction.returned
    /\ extraction.i = Len(extraction.segments)
    /\ extraction' = [extraction EXCEPT !.returned = TRUE, !.text = trim(extraction.result)]
    /\ UNCHANGED <<dvars, evars, svars>>

\* ---------------------------------------------------------- specifications
SInit ==
    /\ sink = "up"
    /\ lost = {}

\* no extraction loop is being followed
NoExtraction == [segments |-> <<>>, i |-> 0, result |-> <<>>, returned |-> FALSE, text |-> <<>>]
Extraction(segments) ==
    [segments |-> segments, i |-> 0, result |-> <<>>, returned |-> FALSE, text |-> <<>>]

Init == DlInit /\ EInit /\ SInit /\ extraction = NoExtraction

\* One caller that awaits each download before starting the next
Next == DownloadStep(1) \/ Quit
Spec == Init /\ [][Next]_vars

\* Concurrent callers of the engine commands; the files stay as they are
EngineNext == \E p \in EProcs : EngineStep(p)
EngineSpec == Init /\ [][EngineNext]_vars

\* The engine commands under the scheduling the runtime gives: a call that
\* runs inference or extraction takes its next step, and a load that waits
\* for the mutex gets it if it is free again and again
TranscribeStep(p) ==
    \/ CreateStateFails(p) \/ InferenceFails(p) \/ InferenceDone(p)
    \/ SegmentCountFails(p) \/ SegmentTextFails(p) \/ TranscribeComplete(p)
Fairness ==
    \A p \in EProcs :
        /\ WF_vars(TranscribeStep(p))
        /\ SF_vars(LoadStore(p))
LiveSpec == Init /\ [][EngineNext]_vars /\ Fairness

\* Two download_model calls on the same target_path that overlap, each made
\* once; the network and the disk do not fail
ConcStep(d) ==
    \/ Begin(d)
    \/ ResponseOk(d)
    \/ CreateStaging(d)
    \/ ChunkWritten(d)
    \/ StreamEnds(d)
    \/ ChecksumMismatch(d)
    \/ ChecksumVerified(d)
    \/ Installed(d)
ConcNext == \E d \in Downloads : ConcStep(d)
ConcSpec == Init /\ [][ConcNext]_vars

\* tauri's emit starts to fail (the window is gone) or to succeed again
SinkFails ==
    /\ sink = "up"
    /\ sink' = "down"
    /\ UNCHANGED <<dvars, evars, lost, extraction>>

SinkRecovers ==
    /\ sink = "down"
    /\ sink' = "up"
    /\ UNCHANGED <<dvars, evars, lost, extraction>>

\* One front end over a sink that comes and goes: it downloads while no model
\* is loaded and no engine command is in flight, and uses the engine once the
\* download has succeeded or none is running
DownloadTurn == IF epc[1] = "idle" /\ ~WHISPER_MODEL.some THEN {1} ELSE {}
EngineTurn == IF dpc[1] = "idle" \/ (dpc[1] = "done" /\ dresult[1].kind = "Ok") THEN {1} ELSE {}
SinkNext ==
    \/ \E d \in DownloadTurn : DownloadStep(d)
    \/ \E p \in EngineTurn : EngineStep(p)
    \/ SinkFails
    \/ SinkRecovers
SinkSpec == Init /\ [][SinkNext]_vars

\* The extraction loop over every list of segments inference can leave
TextInit ==
    /\ DlInit /\ EInit /\ SInit
    /\ extraction \in {Extraction(segments) : segments \in SegmentLists}
TextNext == PushSegment \/ ReturnText
TextSpec == TextInit /\ [][TextNext]_vars

\* ------------------------------------------------------------------ claims
Failed(d) == dpc[d] = "done" /\ dresult[d].kind # "Ok"
Succeeded(d) == dpc[d] = "done" /\ dresult[d].kind = "Ok"
SameIgnoringCase(a, b) == to_lowercase(a) = to_lowercase(b)

\* C1: whenever download_model returns Ok, target_path holds a file whose
\* SHA-256 digest equals the expected checksum, compared ignoring case.
C1_SuccessDigestMatches ==
    \A d \in Downloads :
        Succeeded(d) =>
            /\ fs[target_path].exists
            /\ SameIgnoringCase(Sha256Hex(fs[target_path].data), dargs[d].checksum)

\* a success with an upper-case expected checksum over a non-empty body
C1_Witness ==
    \E d \in Downloads :
        /\ Succeeded(d)
        /\ dargs[d].checksum # to_lowercase(dargs[d].checksum)
        /\ downloaded[d] > 0

\* C2: during and at the end of a call, target_path is absent, or holds what
\* it held when the call began, or holds the bytes this call verified.
C2_TargetNeverPartial ==
    \A d \in Downloads :
        dpc[d] # "idle" =>
            \/ ~fs[target_path].exists
            \/ fs[target_path] = pre[d].target
            \/ /\ Succeeded(d)
               /\ actual_checksum[d] = Sha256Hex(fs[target_path].data)
               /\ SameIgnoringCase(actual_checksum[d], dargs[d].checksum)

\* the staging file holds bytes that fail verification while target_path
\* still holds the earlier artifact
C2_Witness ==
    \E d \in Downloads :
        /\ dpc[d] = "checksum"
        /\ fs[temp_path].exists
        /\ fs[temp_path].data # <<>>
        /\ ~SameIgnoringCase(Sha256Hex(fs[temp_path].data), dargs[d].checksum)
        /\ pre[d].target.exists
        /\ fs[target_path] = pre[d].target

\* C3 (as claimed): a call that returns an error leaves target_path as it was
\* when the call began.
C3_FailureLeavesTarget ==
    \A d \in Downloads : Failed(d) => fs[target_path] = pre[d].target

\* C4 (as claimed): a call that returns an error leaves no file at the
\* staging path, whether or not one was there when the call began.
C4_FailureLeavesNoStaging ==
    \A d \in Downloads : Failed(d) => ~fs[temp_path].exists

\* C5: a call whose staged bytes have a digest that differs (ignoring case)
\* from the expected one, and whose digest computation succeeds, returns
\* ChecksumMismatch{expected, actual}, removes the staging file, renames
\* nothing, and leaves target_path absent if it was absent before.
C5_MismatchRejected ==
    [][\A d \in Downloads :
          ( /\ dpc[d] = "checksum"
            /\ fs[temp_path].exists
            /\ ~SameIgnoringCase(Sha256Hex(fs[temp_path].data), dargs[d].checksum)
            /\ dpc'[d] \notin {"checksum", "idle"}
            /\ dresult'[d].kind # "ChecksumFailed" )
          => /\ dpc'[d] = "done"
             /\ dresult'[d] = ErrMismatch(dargs[d].checksum, Sha256Hex(fs[temp_path].data))
             /\ ~fs'[temp_path].exists
             /\ fs'[target_path] = fs[target_path]
             /\ (~pre[d].target.exists => ~fs'[target_path].exists)]_vars

\* a mismatch returned for a non-empty body with target_path absent before
C5_Witness ==
    \E d \in Downloads :
        /\ dpc[d] = "done"
        /\ dresult[d].kind = "ChecksumMismatch"
        /\ downloaded[d] > 0
        /\ ~pre[d].target.exists

\* C6: a successful call has emitted exactly: one `starting` (0 bytes, 0%),
\* then only `downloading`, then one `validating` at 100%, then one
\* `completed` at 100%; and `starting` is out before the request is sent.
C6_ProgressOrder ==
    \A d \in Downloads :
        /\ dpc[d] = "client" =>
              emitted[d] = <<DownloadProgress(0, dargs[d].expected_size, Percent(0), "starting")>>
        /\ Succeeded(d) =>
              LET e == emitted[d]
                  n == Len(e)
              IN  /\ n >= 3
                  /\ e[1] = DownloadProgress(0, dargs[d].expected_size, Percent(0), "starting")
                  /\ \A i \in 2..(n - 2) : e[i].status = "downloading"
                  /\ e[n - 1].status = "validating"
                  /\ e[n - 1].percentage = Percent(100)
                  /\ e[n].status = "completed"
                  /\ e[n].percentage = Percent(100)

\* a success after two chunks whose byte count differs from expected_size
C6_Witness ==
    \E d \in Downloads :
        /\ Succeeded(d)
        /\ nchunks[d] = 2
        /\ downloaded[d] # dargs[d].expected_size
        /\ Len(emitted[d]) = 6

\* C7: get_whisper_model_status returns None when nothing was stored since
\* the start or when the last store was an unload, and Some(v) when the last
\* store was a successful load of v.
C7_StatusAfterLastStore ==
    [][\A p \in EProcs :
          (epc[p] = "idle" /\ epc'[p] = "done" /\ ecall'[p].op = "status")
          => eresult'[p] =
                [kind |-> "Ok",
                 variant |-> IF last_write.op = "load" THEN last_write.variant ELSE "none",
                 text |-> <<>>]]_vars

\* status has answered None after an unload that emptied a loaded session
C7_Witness ==
    \E p, q \in EProcs :
        /\ ecall[p].op = "status" /\ epc[p] = "done" /\ eresult[p].variant = "none"
        /\ ecall[q].op = "unload" /\ epc[q] = "done" /\ before[q].some
        /\ last_write.op = "unload"

\* C8: load_whisper_model with a path that names no file returns FileNotFound
\* and leaves the slot and the set of live contexts as they were.
C8_LoadMissingFile ==
    [][\A p \in EProcs :
          ( /\ epc[p] = "idle"
            /\ epc'[p] # "idle"
            /\ ecall'[p].op = "load"
            /\ ~(ecall'[p].path \in Paths /\ fs[ecall'[p].path].exists) )
          => /\ epc'[p] = "done"
             /\ eresult'[p] = EErr("FileNotFound")
             /\ WHISPER_MODEL' = WHISPER_MODEL
             /\ live' = live]_vars

\* FileNotFound returned while a context is held
C8_Witness ==
    \E p \in EProcs :
        /\ epc[p] = "done"
        /\ eresult[p].kind = "FileNotFound"
        /\ before[p].some
        /\ WHISPER_MODEL = before[p]

\* C9: the slot changes only in the storing step of a successful load and in
\* unload; no other step (failed load, transcribe, status) changes it.
C9_OnlyLoadAndUnloadStore ==
    [][WHISPER_MODEL' # WHISPER_MODEL =>
          \E p \in EProcs :
              \/ /\ ecall[p].op = "load"
                 /\ epc[p] = "store"
                 /\ epc'[p] = "done"
                 /\ eresult'[p] = EOk
                 /\ WHISPER_MODEL' = ectx[p]
              \/ /\ epc[p] = "idle"
                 /\ epc'[p] = "done"
                 /\ ecall'[p].op = "unload"]_vars

\* a load whose construction failed has returned and the old context is held
C9_Witness ==
    \E p \in EProcs :
        /\ epc[p] = "done"
        /\ eresult[p].kind = "LoadFailed"
        /\ before[p].some
        /\ WHISPER_MODEL = before[p]

\* C10: transcribe_audio that finds the slot empty returns NotLoaded and has
\* emitted no TranscriptionProgress.
C10_TranscribeNotLoaded ==
    \A p \in EProcs :
        (ecall[p].op = "transcribe" /\ ~before[p].some)
        => /\ epc[p] = "done"
           /\ eresult[p] = EErr("NotLoaded")
           /\ stages[p] = <<>>

\* NotLoaded returned after an unload emptied the session
C10_Witness ==
    \E p \in EProcs :
        /\ ecall[p].op = "transcribe"
        /\ epc[p] = "done"
        /\ eresult[p].kind = "NotLoaded"
        /\ last_write.op = "unload"

InProgress(p) == epc[p] \in {"store", "infer", "extract"}
Transcribing(p) == epc[p] \in {"infer", "extract"}
HeldIds == IF WHISPER_MODEL.some THEN {WHISPER_MODEL.id} ELSE {}
PendingIds == {ectx[p].id : p \in {q \in EProcs : epc[q] = "store"}}
StageOrder == <<"loading_model", "processing_audio", "finalizing", "complete">>

\* C11 (as claimed): no two of load, unload, status and transcribe are in
\* progress at the same time, a load counting from its file check on.
C11_NoTwoInProgress ==
    \A p, q \in EProcs : p # q => ~(InProgress(p) /\ InProgress(q))

\* C11 (amended): a transcribe holds the lock from its start to its return;
\* while it runs the slot does not change and the only steps other callers
\* take are a load's file check and construction, and returning a finished
\* call; unload, status, another transcribe and the store of a load wait.
C11_LockSerializesSlotAccess ==
    [][\A q \in EProcs :
          Transcribing(q) =>
              /\ lock = q
              /\ WHISPER_MODEL' = WHISPER_MODEL
              /\ \A p \in EProcs \ {q} :
                    epc'[p] # epc[p] =>
                        \/ epc[p] = "idle" /\ ecall'[p].op = "load"
                        \/ epc[p] = "done"]_vars

\* inference is running while another caller's load has constructed its
\* context and waits for the lock
C11_Witness ==
    \E p, q \in EProcs :
        /\ epc[q] = "extract"
        /\ lock = q
        /\ epc[p] = "store"
        /\ ectx[p].id # WHISPER_MODEL.id

\* C12: every live context is the held one or one a load has constructed and
\* not yet stored; the storing step of a load leaves exactly the new context
\* with the passed variant in the slot and releases the one held before.
C12_SingleInstanceReplaced ==
    /\ [](live = HeldIds \cup PendingIds)
    /\ [][\A p \in EProcs :
             (epc[p] = "store" /\ epc'[p] = "done")
             => /\ WHISPER_MODEL' = Some(ectx[p].id, ecall[p].variant)
                /\ eresult'[p] = EOk
                /\ (WHISPER_MODEL.some => WHISPER_MODEL.id \notin live')]_vars

\* a second load with another variant has replaced the first: only the new
\* context is live
C12_Witness ==
    \E p \in EProcs :
        /\ ecall[p].op = "load" /\ epc[p] = "done" /\ eresult[p] = EOk
        /\ before[p].some
        /\ before[p].variant # ecall[p].variant
        /\ WHISPER_MODEL = Some(WHISPER_MODEL.id, ecall[p].variant)
        /\ before[p].id \notin live
        /\ live = {WHISPER_MODEL.id}

\* C13: every unload returns Ok and leaves the slot empty; on an empty slot
\* it changes nothing.
C13_UnloadIdempotent ==
    [][\A p \in EProcs :
          (epc[p] = "idle" /\ epc'[p] = "done" /\ ecall'[p].op = "unload")
          => /\ eresult'[p] = EOk
             /\ WHISPER_MODEL' = None
             /\ (~WHISPER_MODEL.some => (WHISPER_MODEL' = WHISPER_MODEL /\ live' = live))]_vars

\* two unloads in a row: the first emptied a loaded session, the second found
\* it empty, both returned Ok
C13_Witness ==
    \E p, q \in EProcs :
        /\ p # q
        /\ ecall[p].op = "unload" /\ epc[p] = "done" /\ eresult[p] = EOk /\ before[p].some
        /\ ecall[q].op = "unload" /\ epc[q] = "done" /\ eresult[q] = EOk /\ ~before[q].some
        /\ last_write.op = "unload"
        /\ WHISPER_MODEL = None

\* C14: a transcribe on a loaded session emits a prefix of loading_model,
\* processing_audio, finalizing, complete: two stages are out when inference
\* is invoked, finalizing only once inference has succeeded, and all four
\* exactly when the call returns Ok.
C14_StagePrefix ==
    \A p \in EProcs :
        (ecall[p].op = "transcribe" /\ before[p].some) =>
            /\ Len(stages[p]) <= Len(StageOrder)
            /\ \A i \in 1..Len(stages[p]) : stages[p][i].stage = StageOrder[i]
            /\ epc[p] = "infer" => Len(stages[p]) = 2
            /\ epc[p] = "extract" => Len(stages[p]) = 3
            /\ epc[p] = "done" =>
                  /\ (Len(stages[p]) = 4) <=> (eresult[p].kind = "Ok")
                  /\ eresult[p].kind \in {"CreateStateFailed", "TranscriptionFailed"}
                        => Len(stages[p]) = 2

\* one transcribe returned Ok with four stages, another failed in segment
\* extraction with three
C14_Witness ==
    \E p, q \in EProcs :
        /\ epc[p] = "done" /\ eresult[p].kind = "Ok" /\ Len(stages[p]) = 4
        /\ epc[q] = "done" /\ eresult[q].kind = "SegmentTextFailed" /\ Len(stages[q]) = 3

\* C19: while a transcribe runs, the slot holds the live context it held
\* when the transcribe took the lock.
C19_InferenceOnHeldInstance ==
    \A p \in EProcs :
        Transcribing(p) =>
            /\ WHISPER_MODEL.some
            /\ WHISPER_MODEL = before[p]
            /\ WHISPER_MODEL.id \in live

\* inference is running while a load of another variant waits to store
C19_Witness ==
    \E p, q \in EProcs :
        /\ epc[p] = "infer"
        /\ epc[q] = "store"
        /\ ectx[q].variant # WHISPER_MODEL.variant

\* C17: within one call no handle is open on target_path, none is open once
\* the stream has ended, the digest is computed and the rename made only
\* then, and target_path changes only by a removal or by the one rename that
\* follows a successful comparison; a call that has returned changes no file.
C17_StepsInOrder ==
    /\ [](\A d \in Downloads :
            /\ file[d] # target_path
            /\ dpc[d] \in {"checksum", "rename", "done"} => file[d] = "closed"
            /\ dpc[d] = "rename" =>
                  checksum_matches(actual_checksum[d], dargs[d].checksum))
    /\ [][\A d \in Downloads :
            /\ (dpc[d] = "stream" /\ fs' # fs /\ dpc'[d] = "stream")
                  => /\ fs'[target_path] = fs[target_path]
                     /\ Len(fs'[temp_path].data) > Len(fs[temp_path].data)
            /\ (dpc[d] \notin {"idle", "done"} /\ fs'[target_path] # fs[target_path])
                  => \/ fs'[target_path] = Absent
                     \/ /\ dpc[d] = "rename" /\ dpc'[d] = "done"
                        /\ dresult'[d] = Ok
                        /\ fs'[target_path] = fs[temp_path]
                        /\ ~fs'[temp_path].exists
            /\ dpc[d] = "done" => fs' = fs]_vars

\* two chunks were staged, verified with the handle closed and renamed over
\* the artifact that was there before
C17_Witness ==
    \E d \in Downloads :
        /\ Succeeded(d)
        /\ nchunks[d] = 2
        /\ file[d] = "closed"
        /\ pre[d].target.exists
        /\ fs[target_path].data # pre[d].target.data
        /\ ~fs[temp_path].exists

\* C18: the step that returns the remote-unavailable error carries a
\* non-success status, changes no file, holds no handle, and leaves `starting`
\* as the only snapshot emitted.
C18_StatusRejected ==
    [][\A d \in Downloads :
          (dpc[d] # "done" /\ dresult'[d].kind = "RemoteUnavailable")
          => /\ dresult'[d].status \in HttpErrorStatuses
             /\ fs' = fs
             /\ fs'[temp_path].exists = pre[d].staged
             /\ fs'[target_path] = pre[d].target
             /\ file'[d] = "closed"
             /\ emitted'[d] = <<starting_snapshot(d, dargs[d].expected_size)>>]_vars

\* a 404 with an artifact already installed and no staging file
C18_Witness ==
    \E d \in Downloads :
        /\ dpc[d] = "done"
        /\ dresult[d] = ErrStatus(404)
        /\ pre[d].target.exists
        /\ fs[target_path] = pre[d].target
        /\ ~fs[temp_path].exists
        /\ Len(emitted[d]) = 1

\* C20: every `downloading` snapshot carries expected_size as total_bytes and
\* bytes_downloaded * 100 / expected_size as percentage (0 when expected_size
\* is 0); the latest one carries the bytes received so far, so the counts never
\* decrease; `validating` and `completed` carry the bytes received in all.
C20_ProgressNumbers ==
    \A d \in Downloads :
        LET e == emitted[d]
            size == dargs[d].expected_size
        IN  /\ \A i \in 1..Len(e) :
                  /\ e[i].status = "downloading" =>
                        /\ e[i].total_bytes = size
                        /\ IF size = 0
                           THEN e[i].percentage[1] = 0
                           ELSE e[i].percentage[1] * size
                                   = e[i].bytes_downloaded * 100 * e[i].percentage[2]
                        /\ (i > 1 /\ e[i - 1].status = "downloading")
                              => e[i].bytes_downloaded >= e[i - 1].bytes_downloaded
                  /\ e[i].status \in {"validating", "completed"} =>
                        e[i].bytes_downloaded = received[d]
            /\ dpc[d] = "stream" =>
                  /\ e[Len(e)].status = "downloading"
                  /\ e[Len(e)].bytes_downloaded = received[d]

\* two chunks were received against a non-zero expected size and `validating`
\* was emitted
C20_Witness ==
    \E d \in Downloads :
        /\ dpc[d] = "checksum"
        /\ nchunks[d] = 2
        /\ received[d] >= 2
        /\ dargs[d].expected_size > 0
        /\ Len(emitted[d]) = 5
        /\ emitted[d][4].percentage # emitted[d][3].percentage

\* C16: when two calls on the same target_path overlap, the step in which a
\* call returns Ok leaves at target_path bytes whose digest is that call's
\* expected checksum, and target_path only ever holds the artifact it held at
\* the start or bytes whose digest is an expected checksum.
C16_OverlapKeepsTargetVerified ==
    /\ [](fs[target_path].exists =>
            \/ fs[target_path].data = PriorArtifact
            \/ \E cs \in Checksums :
                  SameIgnoringCase(Sha256Hex(fs[target_path].data), cs))
    /\ [][\A d \in Downloads :
            (dpc[d] = "rename" /\ dpc'[d] = "done" /\ dresult'[d] = Ok)
            => /\ fs'[target_path].exists
               /\ SameIgnoringCase(Sha256Hex(fs'[target_path].data), dargs[d].checksum)]_vars

\* C15: a step that emits while the sink refuses deliveries makes one attempt
\* per snapshot and goes on as it does when the sink accepts: the call moves
\* to its next position, returns no error, and changes the files and the
\* session as that step always does; no emitting step waits for the sink; a
\* call that lost snapshots and returns Ok has installed the verified bytes,
\* or transcribed on the untouched session, with every snapshot attempted.
C15_SinkFailureIgnored ==
    /\ [](/\ \A d \in Downloads :
               (<<"download", d>> \in lost /\ Succeeded(d)) =>
                   /\ fs[target_path].exists
                   /\ SameIgnoringCase(Sha256Hex(fs[target_path].data), dargs[d].checksum)
                   /\ Len(emitted[d]) = nchunks[d] + 4
          /\ \A p \in EProcs :
               (<<"transcribe", p>> \in lost /\ epc[p] = "done" /\ eresult[p].kind = "Ok") =>
                   /\ Len(stages[p]) = 4
                   /\ WHISPER_MODEL = before[p])
    /\ [](sink = "down" =>
            /\ \A d \in Downloads :
                 /\ dpc[d] = "idle" => ENABLED Begin(d)
                 /\ dpc[d] = "create" => ENABLED CreateStaging(d)
                 /\ dpc[d] = "stream" => ENABLED StreamEnds(d)
                 /\ (dpc[d] = "rename" /\ fs[temp_path].exists) => ENABLED Installed(d)
            /\ \A p \in EProcs :
                 /\ (epc[p] = "idle" /\ lock_available /\ WHISPER_MODEL.some)
                       => ENABLED TranscribeBegin(p)
                 /\ epc[p] = "infer" => ENABLED InferenceDone(p)
                 /\ epc[p] = "extract" => ENABLED TranscribeComplete(p))
    /\ [][sink = "down" =>
            /\ \A d \in Downloads :
                 (emitted'[d] # emitted[d] /\ dpc[d] # "done") =>
                     /\ Len(emitted'[d]) = Len(emitted[d]) + 1
                     /\ SubSeq(emitted'[d], 1, Len(emitted[d])) = emitted[d]
                     /\ <<"download", d>> \in lost'
                     /\ dresult'[d].kind \in {"Pending", "Ok"}
                     /\ CASE dpc[d] = "idle" -> dpc'[d] = "client" /\ fs' = fs
                          [] dpc[d] = "create" ->
                                dpc'[d] = "stream" /\ fs'[temp_path] = File(<<>>)
                          [] dpc[d] = "stream" ->
                                \/ dpc'[d] = "stream" /\ nchunks'[d] = nchunks[d] + 1
                                \/ dpc'[d] = "checksum" /\ fs' = fs
                          [] dpc[d] = "rename" ->
                                /\ dpc'[d] = "done" /\ dresult'[d] = Ok
                                /\ fs'[target_path] = fs[temp_path]
                          [] OTHER -> FALSE
            /\ \A p \in EProcs :
                 (stages'[p] # stages[p] /\ epc[p] # "done") =>
                     /\ <<"transcribe", p>> \in lost'
                     /\ WHISPER_MODEL' = WHISPER_MODEL
                     /\ live' = live
                     /\ eresult'[p].kind \in {"Pending", "Ok"}
                     /\ CASE epc[p] = "idle" -> epc'[p] = "infer" /\ Len(stages'[p]) = 2
                          [] epc[p] = "infer" -> epc'[p] = "extract" /\ Len(stages'[p]) = 3
                          [] epc[p] = "extract" ->
                                epc'[p] = "done" /\ lock' = 0 /\ Len(stages'[p]) = 4
                          [] OTHER -> FALSE]_vars

\* with the sink down, a download that lost snapshots has installed its
\* artifact and a transcribe that lost snapshots has returned its text
C15_Witness ==
    /\ sink = "down"
    /\ Succeeded(1)
    /\ <<"download", 1>> \in lost
    /\ nchunks[1] = 2
    /\ epc[1] = "done"
    /\ ecall[1].op = "transcribe"
    /\ eresult[1].kind = "Ok"
    /\ <<"transcribe", 1>> \in lost

RECURSIVE JoinedBySpace(_)
JoinedBySpace(segments) ==
    IF segments = <<>> THEN <<>>
    ELSE IF Len(segments) = 1 THEN segments[1]
    ELSE segments[1] \o <<Blank>> \o JoinedBySpace(Tail(segments))

\* r is t without its leading and trailing blanks
StrippedOf(r, t) ==
    /\ r # <<>> => (r[1] # Blank /\ r[Len(r)] # Blank)
    /\ \E lead \in 0..Len(t) :
          /\ lead + Len(r) <= Len(t)
          /\ SubSeq(t, lead + 1, lead + Len(r)) = r
          /\ \A n \in 1..Len(t) : (n <= lead \/ n > lead + Len(r)) => t[n] = Blank

\* C21: for every list of segments, the returned text is the segments joined
\* in order by single spaces with the leading and trailing blanks of the whole
\* removed; no segments give the empty string; in the loop `result` is the
\* first i segments, each followed by a space.
C21_JoinedAndTrimmed ==
    /\ extraction.result
          = (IF extraction.i = 0 THEN <<>>
             ELSE JoinedBySpace(SubSeq(extraction.segments, 1, extraction.i)) \o <<Blank>>)
    /\ extraction.returned =>
          /\ extraction.i = Len(extraction.segments)
          /\ StrippedOf(extraction.text, JoinedBySpace(extraction.segments))
          /\ extraction.segments = <<>> => extraction.text = <<>>

\* two segments, the first starting and the second ending with a blank, came
\* back joined with the outer blanks gone and the inner ones kept
C21_Witness ==
    /\ extraction.returned
    /\ extraction.segments = << <<Blank, "a">>, <<"a", Blank>> >>
    /\ extraction.text = <<"a", Blank, "a">>
    /\ extraction.result # extraction.text

HasStatus(d, status) == \E i \in 1..Len(emitted[d]) : emitted[d][i].status = status

\* C22: `completed` is among a call's snapshots exactly when the call has
\* returned Ok, and is then the last one and the only one; no `failed`
\* snapshot exists; the step that returns an error emits nothing, and nothing
\* is emitted once the call has returned.
C22_CompletedIffSuccess ==
    /\ [](\A d \in Downloads :
            /\ HasStatus(d, "completed") <=> Succeeded(d)
            /\ Succeeded(d) =>
                  /\ emitted[d][Len(emitted[d])].status = "completed"
                  /\ \A i \in 1..(Len(emitted[d]) - 1) : emitted[d][i].status # "completed"
            /\ ~HasStatus(d, "failed"))
    /\ [][\A d \in Downloads :
            /\ (dpc[d] # "done" /\ dpc'[d] = "done" /\ dresult'[d].kind # "Ok")
                  => emitted'[d] = emitted[d]
            /\ (dpc[d] = "done" /\ dpc'[d] = "done") => emitted'[d] = emitted[d]]_vars

\* the rename failed after `validating`: that snapshot stays the last one
C22_Witness ==
    \E d \in Downloads :
        /\ Failed(d)
        /\ dresult[d].kind = "InstallFailed"
        /\ nchunks[d] > 0
        /\ emitted[d][Len(emitted[d])].status = "validating"
        /\ ~HasStatus(d, "completed")

\* C23: the lock is held only by a transcribe that has not returned, so every
\* return has released it; a call in progress leaves that position only by
\* returning, and no call stays in progress for ever: every load waiting to
\* store and every transcribe under way returns.
C23_EveryCallReturns ==
    /\ [](\A p \in EProcs :
            /\ lock = p => Transcribing(p)
            /\ epc[p] \in {"idle", "done", "store"} => lock # p)
    /\ [][\A p \in EProcs : (InProgress(p) /\ ~InProgress(p)') => epc'[p] = "done"]_vars
    /\ \A p \in EProcs : []<>(~InProgress(p))

\* a load that had to wait has stored after a transcribe left by its error
\* path, and the lock is free
C23_Witness ==
    \E p, q \in EProcs :
        /\ p # q
        /\ lock = 0
        /\ epc[q] = "done" /\ ecall[q].op = "transcribe"
        /\ eresult[q].kind = "TranscriptionFailed"
        /\ epc[p] = "done" /\ ecall[p].op = "load" /\ eresult[p] = EOk
        /\ last_write.op = "load"
        /\ WHISPER_MODEL.some /\ WHISPER_MODEL # before[q]
====
